---- MODULE Spec2Model ----
(***************************************************************************)
(* Model of guides/keras_tuner/custom_tuner.py: the script creates a       *)
(* RandomSearch tuner over MyHyperModel, runs the search (each trial is a  *)
(* build followed by MyHyperModel.fit, a hand-written two-epoch training   *)
(* loop that notifies the callbacks) and reads the results back.           *)
(*                                                                         *)
(* Abstractions.  A loss is a natural number in 0..MaxLoss; a mean is the  *)
(* reduced fraction <<num, den>>, and float("inf") is <<1, 0>>.  The       *)
(* trainable weights of a model are the number of gradient updates applied *)
(* to it.  A dataset is the pair of array names it was sliced from and its *)
(* number of batches.  The width of the hidden layer (hp.Choice("units"))  *)
(* influences no control flow and is left out of the hyperparameters.      *)
(***************************************************************************)
EXTENDS Integers, Sequences, FiniteSets, TLC

\* ---------------------------------------------------------------- bounds
NumSamples == 100      \* rows of every data array (1000 in the script)
MaxLoss == 1           \* batch losses range over 0..MaxLoss
MaxCallbacks == 2      \* the driver passes 1..MaxCallbacks callbacks

\* ------------------------------------------------------ program constants
MaxTrials == 2         \* max_trials=2
NumEpochs == 2         \* range(2)
BatchMin == 32         \* hp.Int("batch_size", 32, 128, step=32, ...)
BatchMax == 128
BatchStep == 32

None == "None"
NoModel == 0
NoValue == <<0, 0>>
BatchSizes == {b \in BatchMin..BatchMax : (b - BatchMin) % BatchStep = 0}
ObjectiveName == "my_metric"
NoHp == [batch_size |-> 0]
NoDataset == [source |-> <<None, None>>, batches |-> 0]
NoCallbacks == [isNone |-> TRUE, items |-> <<>>]
CallbackList(k) == [isNone |-> FALSE, items |-> [c \in 1..k |-> c]]

VARIABLES
    scriptPc,        \* position of the script's top-level statements
    tuner,           \* the RandomSearch object
    searchKw,        \* keyword arguments given to tuner.search
    hp,              \* hyperparameter values of the running trial
    weights,         \* model id -> number of gradient updates applied
    trialModel,      \* the driver's model of the running trial
    calls,           \* history: build / fit calls and returns, in order
    fitPc,           \* position inside MyHyperModel.fit
    fitArgs,         \* x, y arguments of the running fit call
    fitModel,        \* model argument of fit
    fitCallbacks,    \* callbacks argument of fit: None or a list of callbacks
    train_ds,        \* fit's local train_ds
    validation_data, \* fit's local validation_data (after batching)
    optimizer,       \* fit's local optimizer (its iteration counter)
    epoch_loss_metric, \* keras.metrics.Mean: <<total, count>>
    best_epoch_loss,
    epoch,
    idx,             \* index of the running inner for loop
    epoch_loss,
    cbModel,         \* callback -> its model attribute
    notifications,   \* on_epoch_end calls received by the callbacks, in order
    epochVal,        \* history: validation losses computed in this epoch
    fitResult,       \* value returned by the last fit call
    printed          \* what the script printed at the end

vars == <<scriptPc, tuner, searchKw, hp, weights, trialModel, calls, fitPc, fitArgs,
          fitModel, fitCallbacks, train_ds, validation_data, optimizer,
          epoch_loss_metric, best_epoch_loss, epoch, idx, epoch_loss, cbModel,
          notifications, epochVal, fitResult, printed>>

fitLocals == <<fitArgs, fitModel, fitCallbacks, train_ds, validation_data,
               optimizer, epoch_loss_metric, best_epoch_loss, epoch, idx,
               epoch_loss, cbModel, notifications, epochVal>>

\* ------------------------------------------------------------ arithmetic
RECURSIVE Gcd(_, _)
Gcd(a, b) == IF b = 0 THEN a ELSE Gcd(b, a % b)

Frac(n, d) == <<n \div Gcd(n, d), d \div Gcd(n, d)>>

Inf == <<1, 0>>

Less(a, b) == a[1] * b[2] < b[1] * a[2]

\* Variant: the last epoch's loss is kept instead of the smallest.
PyMinKeepsLast(a, b) == b

\* Python's min(a, b): the first argument unless the second is smaller.
PyMin(a, b) == IF Less(b, a) THEN b ELSE a

RECURSIVE SeqSum(_)
SeqSum(s) == IF s = <<>> THEN 0 ELSE Head(s) + SeqSum(Tail(s))

\* keras.metrics.Mean
MeanNew == <<0, 0>>

MeanUpdateState(m, v) == <<m[1] + v, m[2] + 1>>

MeanResult(m) == IF m[2] = 0 THEN <<0, 1>> ELSE Frac(m[1], m[2])

\* Variant: the accumulator is not cleared between epochs.
MeanResetStatesKeeps(m) == m

MeanResetStates(m) == <<0, 0>>

\* tf.data.Dataset.from_tensor_slices(arrays).batch(batch_size)
CeilDiv(n, d) == (n + d - 1) \div d

BatchedDataset(arrays, batch_size) ==
    [source |-> arrays, batches |-> CeilDiv(NumSamples, batch_size)]

\* ------------------------------------------------------------------ Init
Init ==
    /\ scriptPc = "create_tuner"
    /\ tuner = [objective |-> None, max_trials |-> 0, trials |-> <<>>]
    /\ searchKw = [x |-> None, y |-> None, validation_data |-> <<None, None>>]
    /\ hp = NoHp
    /\ weights = <<>>
    /\ trialModel = NoModel
    /\ calls = <<>>
    /\ fitPc = "idle"
    /\ fitArgs = [x |-> None, y |-> None]
    /\ fitModel = NoModel
    /\ fitCallbacks = NoCallbacks
    /\ train_ds = NoDataset
    /\ validation_data = NoDataset
    /\ optimizer = 0
    /\ epoch_loss_metric = MeanNew
    /\ best_epoch_loss = NoValue
    /\ epoch = 0
    /\ idx = 0
    /\ epoch_loss = NoValue
    /\ cbModel = <<>>
    /\ notifications = <<>>
    /\ epochVal = <<>>
    /\ fitResult = NoValue
    /\ printed = [hps |-> NoHp, model |-> NoModel]

\* ------------------------------------------------- the script and driver
\* tuner = kt.RandomSearch(objective=kt.Objective("my_metric", "min"),
\*                         max_trials=2, hypermodel=MyHyperModel(), ...)
NewTuner == [objective |-> ObjectiveName, max_trials |-> MaxTrials, trials |-> <<>>]

CreateTuner ==
    /\ scriptPc = "create_tuner"
    /\ tuner' = NewTuner
    /\ scriptPc' = "search"
    /\ UNCHANGED <<searchKw, hp, weights, trialModel, calls, fitPc, fitLocals,
                   fitResult, printed>>

\* The arguments of the script's own call of tuner.search.
ScriptSearchKw ==
    [x |-> "x_train", y |-> "y_train", validation_data |-> <<"x_val", "y_val">>]

SearchWith(kw) ==
    /\ scriptPc = "search"
    /\ searchKw' = kw
    /\ scriptPc' = "next_trial"
    /\ UNCHANGED <<tuner, hp, weights, trialModel, calls, fitPc, fitLocals,
                   fitResult, printed>>

\* tuner.search(x=x_train, y=y_train, validation_data=(x_val, y_val))
Search == SearchWith(ScriptSearchKw)

\* Variant: build hands out one model object again and again.
BuildModelShared(ws) == IF ws = <<>> THEN 1 ELSE Len(ws)

\* MyHyperModel.build returns a new keras.Model.
BuildModel(ws) == Len(ws) + 1

\* The driver starts another trial while fewer than max_trials have run.
MoreTrials == Len(tuner.trials) < tuner.max_trials

\* A trial begins: the driver calls MyHyperModel.build(hp).
TrialBuild ==
    /\ scriptPc = "next_trial"
    /\ MoreTrials
    /\ LET m == BuildModel(weights) IN
         /\ hp' = NoHp
         /\ weights' = [i \in DOMAIN weights \cup {m} |->
                          IF i \in DOMAIN weights THEN weights[i] ELSE 0]
         /\ trialModel' = m
         /\ calls' = Append(calls, <<"build", m>>)
    /\ scriptPc' = "built"
    /\ UNCHANGED <<tuner, searchKw, fitPc, fitLocals, fitResult, printed>>

\* The arrays fit slices into train_ds.
TrainArrays(x, y) == <<"x_train", "y_train">>

\* fit(hp, model, x, y, validation_data, callbacks), from its entry to the
\* definition of the two step functions.
FitEnter(cbs) ==
    /\ scriptPc = "built"
    /\ \E bs \in BatchSizes :
         /\ hp' = [hp EXCEPT !.batch_size = bs]
         /\ train_ds' = BatchedDataset(TrainArrays(searchKw.x, searchKw.y), bs)
         /\ validation_data' = BatchedDataset(searchKw.validation_data, bs)
    /\ fitArgs' = [x |-> searchKw.x, y |-> searchKw.y]
    /\ fitModel' = trialModel
    /\ fitCallbacks' = cbs
    /\ cbModel' = [c \in DOMAIN cbs.items |-> NoModel]
    /\ notifications' = <<>>
    /\ optimizer' = 0
    /\ epoch_loss_metric' = MeanNew
    /\ best_epoch_loss' = NoValue
    /\ epoch' = 0
    /\ idx' = 0
    /\ epoch_loss' = NoValue
    /\ epochVal' = <<>>
    /\ fitResult' = NoValue
    /\ calls' = Append(calls, <<"fit", trialModel>>)
    /\ fitPc' = "assign"
    /\ scriptPc' = "in_fit"
    /\ UNCHANGED <<tuner, searchKw, weights, trialModel, printed>>

\* The driver calls fit with its list of callbacks.
TrialFit == \E k \in 1..MaxCallbacks : FitEnter(CallbackList(k))

\* Variant: only the first callback gets the model.
AssignModelFirstOnly ==
    /\ fitPc = "assign"
    /\ ~fitCallbacks.isNone
    /\ idx < Len(fitCallbacks.items)
    /\ cbModel' = IF idx = 0
                  THEN [cbModel EXCEPT ![fitCallbacks.items[1]] = fitModel]
                  ELSE cbModel
    /\ idx' = idx + 1
    /\ UNCHANGED <<scriptPc, tuner, searchKw, hp, weights, trialModel, calls,
                   fitPc, fitArgs, fitModel, fitCallbacks, train_ds,
                   validation_data, optimizer, epoch_loss_metric,
                   best_epoch_loss, epoch, epoch_loss, notifications, epochVal,
                   fitResult, printed>>

\* for callback in callbacks: callback.model = model
AssignModel ==
    /\ fitPc = "assign"
    /\ ~fitCallbacks.isNone
    /\ idx < Len(fitCallbacks.items)
    /\ cbModel' = [cbModel EXCEPT ![fitCallbacks.items[idx + 1]] = fitModel]
    /\ idx' = idx + 1
    /\ UNCHANGED <<scriptPc, tuner, searchKw, hp, weights, trialModel, calls,
                   fitPc, fitArgs, fitModel, fitCallbacks, train_ds,
                   validation_data, optimizer, epoch_loss_metric,
                   best_epoch_loss, epoch, epoch_loss, notifications, epochVal,
                   fitResult, printed>>

\* best_epoch_loss = float("inf")
InitBest ==
    /\ fitPc = "assign"
    /\ ~fitCallbacks.isNone
    /\ idx = Len(fitCallbacks.items)
    /\ best_epoch_loss' = Inf
    /\ epoch' = 0
    /\ fitPc' = "epoch"
    /\ UNCHANGED <<scriptPc, tuner, searchKw, hp, weights, trialModel, calls,
                   fitArgs, fitModel, fitCallbacks, train_ds, validation_data,
                   optimizer, epoch_loss_metric, idx, epoch_loss, cbModel,
                   notifications, epochVal, fitResult, printed>>

\* for epoch in range(2): the next epoch begins.
EpochStart ==
    /\ fitPc = "epoch"
    /\ epoch < NumEpochs
    /\ idx' = 0
    /\ epochVal' = <<>>
    /\ fitPc' = "train"
    /\ UNCHANGED <<scriptPc, tuner, searchKw, hp, weights, trialModel, calls,
                   fitArgs, fitModel, fitCallbacks, train_ds, validation_data,
                   optimizer, epoch_loss_metric, best_epoch_loss, epoch,
                   epoch_loss, cbModel, notifications, fitResult, printed>>

\* run_train_step: the gradients are applied to the model's variables.
RunTrainStep ==
    /\ weights' = [weights EXCEPT ![fitModel] = @ + 1]
    /\ optimizer' = optimizer + 1
    /\ UNCHANGED <<epoch_loss_metric, best_epoch_loss>>

\* for images, labels in train_ds: run_train_step(images, labels)
TrainStep ==
    /\ fitPc = "train"
    /\ idx < train_ds.batches
    /\ RunTrainStep
    /\ idx' = idx + 1
    /\ UNCHANGED <<scriptPc, tuner, searchKw, hp, trialModel, calls, fitPc,
                   fitArgs, fitModel, fitCallbacks, train_ds, validation_data,
                   epoch, epoch_loss, cbModel, notifications, epochVal,
                   fitResult, printed>>

\* The training data is exhausted: the validation loop begins.
TrainDone ==
    /\ fitPc = "train"
    /\ idx = train_ds.batches
    /\ idx' = 0
    /\ fitPc' = "val"
    /\ UNCHANGED <<scriptPc, tuner, searchKw, hp, weights, trialModel, calls,
                   fitArgs, fitModel, fitCallbacks, train_ds, validation_data,
                   optimizer, epoch_loss_metric, best_epoch_loss, epoch,
                   epoch_loss, cbModel, notifications, epochVal, fitResult,
                   printed>>

\* Variant: the validation step applies gradients as the train step does.
RunValStepTrains(loss) ==
    /\ epoch_loss_metric' = MeanUpdateState(epoch_loss_metric, loss)
    /\ weights' = [weights EXCEPT ![fitModel] = @ + 1]
    /\ optimizer' = optimizer + 1
    /\ UNCHANGED best_epoch_loss

\* run_val_step: the batch's loss is added to the metric.
RunValStep(loss) ==
    /\ epoch_loss_metric' = MeanUpdateState(epoch_loss_metric, loss)
    /\ UNCHANGED <<weights, optimizer, best_epoch_loss>>

\* for images, labels in validation_data: run_val_step(images, labels)
ValStep ==
    /\ fitPc = "val"
    /\ idx < validation_data.batches
    /\ \E loss \in 0..MaxLoss :
         /\ RunValStep(loss)
         /\ epochVal' = Append(epochVal, loss)
    /\ idx' = idx + 1
    /\ UNCHANGED <<scriptPc, tuner, searchKw, hp, trialModel, calls, fitPc,
                   fitArgs, fitModel, fitCallbacks, train_ds, validation_data,
                   epoch, epoch_loss, cbModel, notifications, fitResult,
                   printed>>

\* epoch_loss = float(epoch_loss_metric.result().numpy())
EpochResult ==
    /\ fitPc = "val"
    /\ idx = validation_data.batches
    /\ epoch_loss' = MeanResult(epoch_loss_metric)
    /\ idx' = 0
    /\ fitPc' = "notify"
    /\ UNCHANGED <<scriptPc, tuner, searchKw, hp, weights, trialModel, calls,
                   fitArgs, fitModel, fitCallbacks, train_ds, validation_data,
                   optimizer, epoch_loss_metric, best_epoch_loss, epoch,
                   cbModel, notifications, epochVal, fitResult, printed>>

\* Variant: the logs are keyed by a name the objective does not have.
LogsValLoss(value) == [k \in {"val_loss"} |-> value]

\* logs={"my_metric": epoch_loss}
Logs(value) == [k \in {"my_metric"} |-> value]

\* Variant: the epochs are reported counting from one.
OnEpochEndOneBased(c) ==
    [callback |-> c, epoch |-> epoch + 1, logs |-> Logs(epoch_loss),
     model |-> cbModel[c]]

\* callback.on_epoch_end(epoch, logs={"my_metric": epoch_loss}), as the
\* callback receives it; model is the callback's model attribute then.
OnEpochEnd(c) ==
    [callback |-> c, epoch |-> epoch, logs |-> Logs(epoch_loss),
     model |-> cbModel[c]]

\* for callback in callbacks: callback.on_epoch_end(epoch, logs=...)
Notify ==
    /\ fitPc = "notify"
    /\ idx < Len(fitCallbacks.items)
    /\ notifications' = Append(notifications, OnEpochEnd(fitCallbacks.items[idx + 1]))
    /\ idx' = idx + 1
    /\ UNCHANGED <<scriptPc, tuner, searchKw, hp, weights, trialModel, calls,
                   fitPc, fitArgs, fitModel, fitCallbacks, train_ds,
                   validation_data, optimizer, epoch_loss_metric,
                   best_epoch_loss, epoch, epoch_loss, cbModel, epochVal,
                   fitResult, printed>>

\* epoch_loss_metric.reset_states()
ResetStates ==
    /\ fitPc = "notify"
    /\ idx = Len(fitCallbacks.items)
    /\ epoch_loss_metric' = MeanResetStates(epoch_loss_metric)
    /\ fitPc' = "best"
    /\ UNCHANGED <<scriptPc, tuner, searchKw, hp, weights, trialModel, calls,
                   fitArgs, fitModel, fitCallbacks, train_ds, validation_data,
                   optimizer, best_epoch_loss, epoch, idx, epoch_loss, cbModel,
                   notifications, epochVal, fitResult, printed>>

\* best_epoch_loss = min(best_epoch_loss, epoch_loss); the epoch ends.
UpdateBest ==
    /\ fitPc = "best"
    /\ best_epoch_loss' = PyMin(best_epoch_loss, epoch_loss)
    /\ epoch' = epoch + 1
    /\ fitPc' = "epoch"
    /\ UNCHANGED <<scriptPc, tuner, searchKw, hp, weights, trialModel, calls,
                   fitArgs, fitModel, fitCallbacks, train_ds, validation_data,
                   optimizer, epoch_loss_metric, idx, epoch_loss, cbModel,
                   notifications, epochVal, fitResult, printed>>

\* Variant: the loop's end is tested one epoch too late.
FitReturnLate ==
    /\ fitPc = "epoch"
    /\ epoch > NumEpochs
    /\ fitResult' = best_epoch_loss
    /\ calls' = Append(calls, <<"return", fitModel>>)
    /\ fitPc' = "idle"
    /\ scriptPc' = "record"
    /\ UNCHANGED <<tuner, searchKw, hp, weights, trialModel, fitLocals, printed>>

\* return best_epoch_loss
FitReturn ==
    /\ fitPc = "epoch"
    /\ epoch = NumEpochs
    /\ fitResult' = best_epoch_loss
    /\ calls' = Append(calls, <<"return", fitModel>>)
    /\ fitPc' = "idle"
    /\ scriptPc' = "record"
    /\ UNCHANGED <<tuner, searchKw, hp, weights, trialModel, fitLocals, printed>>

\* The driver records the trial: its hyperparameters, model and score.
TrialRecord ==
    /\ scriptPc = "record"
    /\ tuner' = [tuner EXCEPT !.trials =
                    Append(@, [hp |-> hp, model |-> trialModel, score |-> fitResult])]
    /\ scriptPc' = "next_trial"
    /\ UNCHANGED <<searchKw, hp, weights, trialModel, calls, fitPc, fitLocals,
                   fitResult, printed>>

\* tuner.search returns once max_trials trials have run.
SearchReturn ==
    /\ scriptPc = "next_trial"
    /\ ~MoreTrials
    /\ scriptPc' = "results"
    /\ UNCHANGED <<tuner, searchKw, hp, weights, trialModel, calls, fitPc,
                   fitLocals, fitResult, printed>>

\* The best trial: the first one with the smallest score.
BestTrial(trials) ==
    CHOOSE i \in DOMAIN trials :
        /\ \A j \in DOMAIN trials : ~Less(trials[j].score, trials[i].score)
        /\ \A j \in 1..(i - 1) : Less(trials[i].score, trials[j].score)

\* print(best_hps.values); best_model.summary()
PrintResults ==
    /\ scriptPc = "results"
    /\ LET t == tuner.trials[BestTrial(tuner.trials)] IN
         printed' = [hps |-> t.hp, model |-> t.model]
    /\ scriptPc' = "done"
    /\ UNCHANGED <<tuner, searchKw, hp, weights, trialModel, calls, fitPc,
                   fitLocals, fitResult>>

Next ==
    \/ CreateTuner
    \/ Search
    \/ TrialBuild
    \/ TrialFit
    \/ AssignModel
    \/ InitBest
    \/ EpochStart
    \/ TrainStep
    \/ TrainDone
    \/ ValStep
    \/ EpochResult
    \/ Notify
    \/ ResetStates
    \/ UpdateBest
    \/ FitReturn
    \/ TrialRecord
    \/ SearchReturn
    \/ PrintResults

Spec == Init /\ [][Next]_vars

\* The script has no concurrency: whatever statement is next is executed.
FairSpec == Spec /\ WF_vars(Next)

\* ------------------------------------- search and fit with any arguments
TrainPairs == {<<"x_train", "y_train">>, <<"x_alt", "y_alt">>}
ValPairs == {<<"x_val", "y_val">>, <<"x_alt", "y_alt">>}

\* tuner.search(x=..., y=..., validation_data=...) with any data.
SearchAny ==
    \E t \in TrainPairs, v \in ValPairs :
        SearchWith([x |-> t[1], y |-> t[2], validation_data |-> v])

\* fit called with callbacks left at its default, None.
FitDefaultCallbacks == FitEnter(NoCallbacks)

\* for callback in callbacks: iterating None raises TypeError, which
\* propagates out of fit and of the search.
AssignRaises ==
    /\ fitPc = "assign"
    /\ fitCallbacks.isNone
    /\ calls' = Append(calls, <<"raise", fitModel>>)
    /\ fitPc' = "raised"
    /\ scriptPc' = "error"
    /\ UNCHANGED <<tuner, searchKw, hp, weights, trialModel, fitLocals,
                   fitResult, printed>>

ApiNext ==
    \/ Next
    \/ SearchAny
    \/ FitDefaultCallbacks
    \/ AssignRaises

ApiSpec == Init /\ [][ApiNext]_vars

\* ---------------------------------------------------------------- claims
Range(s) == {s[i] : i \in DOMAIN s}

MeanOf(s) == Frac(SeqSum(s), Len(s))

Reported == {n.logs["my_metric"] : n \in Range(notifications)}

C2_TrainsOnSearchData ==
    fitPc # "idle" =>
        /\ train_ds.source = <<searchKw.x, searchKw.y>>
        /\ validation_data.source = searchKw.validation_data

\* C3: every on_epoch_end notification carries a logs mapping that has the
\* tuner's objective name as a key, and the value under it is the
\* validation loss fit computed for that epoch.
C3_LogsKeyedByObjective ==
    \A n \in Range(notifications) :
        /\ tuner.objective \in DOMAIN n.logs
        /\ (fitPc \in {"notify", "best"} /\ n.epoch = epoch) =>
               n.logs[tuner.objective] = epoch_loss

\* A callback has been notified of a positive loss.
C3_Witness ==
    /\ fitPc = "notify"
    /\ \E n \in Range(notifications) :
         n.epoch = epoch /\ Less(<<0, 1>>, n.logs["my_metric"])

\* C4: one call of fit notifies callback after callback for epoch 0, then
\* callback after callback for epoch 1, and nothing else: when it returns,
\* every callback has been notified exactly twice.
C4_TwoEpochsInOrder ==
    LET k == Len(fitCallbacks.items) IN
    /\ \A i \in DOMAIN notifications :
         /\ notifications[i].callback = fitCallbacks.items[((i - 1) % k) + 1]
         /\ notifications[i].epoch = (i - 1) \div k
    /\ scriptPc = "record" => Len(notifications) = 2 * k
    /\ scriptPc = "record" =>
         \A c \in Range(fitCallbacks.items) :
            Cardinality({i \in DOMAIN notifications : notifications[i].callback = c}) = 2

\* fit has returned after notifying two callbacks.
C4_Witness ==
    /\ scriptPc = "record"
    /\ Len(fitCallbacks.items) = 2
    /\ Len(notifications) = 4

\* C5: from the first epoch on, every callback's model attribute is the
\* model being trained, and it was that model at every on_epoch_end call.
C5_CallbacksHoldModel ==
    /\ fitPc \in {"epoch", "train", "val", "notify", "best"} =>
         \A c \in Range(fitCallbacks.items) :
            cbModel[c] = fitModel /\ fitModel # NoModel
    /\ \A n \in Range(notifications) : n.model = fitModel /\ n.model # NoModel

\* The second of two callbacks has been notified.
C5_Witness ==
    /\ fitPc = "notify"
    /\ \E n \in Range(notifications) : n.callback = 2

\* C6: the script eventually prints the best hyperparameters and model, and
\* it prints only after the search has finished all its trials.
C6_RunsToCompletion ==
    /\ <>(scriptPc = "done")
    /\ [][printed' # printed =>
            /\ scriptPc = "results"
            /\ fitPc = "idle"
            /\ Len(tuner.trials) = tuner.max_trials]_vars

\* The results have been printed.
C6_Witness ==
    /\ scriptPc = "done"
    /\ printed.model # NoModel

TrialPattern == <<"build", "fit", "return">>

C8_EpochLossIsEpochMean ==
    /\ fitPc = "train" => epochVal = <<>> /\ epoch_loss_metric = <<0, 0>>
    /\ fitPc = "val" =>
         /\ epoch_loss_metric = <<SeqSum(epochVal), Len(epochVal)>>
         /\ Len(epochVal) = idx
         /\ weights[fitModel] = (epoch + 1) * train_ds.batches
    /\ fitPc \in {"notify", "best"} =>
         /\ Len(epochVal) = validation_data.batches
         /\ epoch_loss = MeanOf(epochVal)
         /\ \A n \in Range(notifications) :
              n.epoch = epoch => n.logs["my_metric"] = MeanOf(epochVal)

\* Epoch 1 reports a loss of 0 after epoch 0 reported a positive one.
C8_Witness ==
    /\ fitPc = "notify"
    /\ epoch = 1
    /\ epoch_loss = <<0, 1>>
    /\ \E n \in Range(notifications) :
         n.epoch = 0 /\ Less(<<0, 1>>, n.logs["my_metric"])

\* C9: a validation step changes the metric and nothing else of the
\* training state; weights change only in training steps; a training step
\* changes neither the metric nor best_epoch_loss.
C9_StepFrames ==
    [][/\ (fitPc = "val" /\ idx < validation_data.batches) =>
            /\ weights' = weights
            /\ optimizer' = optimizer
            /\ best_epoch_loss' = best_epoch_loss
            /\ epoch_loss' = epoch_loss
            /\ cbModel' = cbModel
            /\ notifications' = notifications
       /\ \A m \in DOMAIN weights :
            weights'[m] # weights[m] => (fitPc = "train" /\ m = fitModel)
       /\ fitPc = "train" =>
            /\ epoch_loss_metric' = epoch_loss_metric
            /\ best_epoch_loss' = best_epoch_loss]_vars

\* Validation steps of the second epoch, after training steps.
C9_Witness ==
    /\ fitPc = "val"
    /\ epoch = 1
    /\ idx >= 1
    /\ weights[fitModel] >= 2

\* C10: a call of fit with callbacks left at None does not end in an error.
C10_CallbacksOptional ==
    fitCallbacks.isNone => fitPc # "raised"

====
